---- MODULE Spec2Model ----
(***************************************************************************)
(* Model of the limit order book of src/lob.py (class LimitOrderBook).     *)
(*                                                                         *)
(* One step of the model is one iteration of the loop of process(): the   *)
(* day check (with clear_book), the dispatch on activity_type and the      *)
(* whole handler (add, cancel, modify), including every event it records.  *)
(* An exception raised inside a handler leaves process(): the changes made *)
(* before the raise stay, and no later row is processed.                   *)
(***************************************************************************)
EXTENDS Integers, Sequences, FiniteSets, TLC

\* ------------------------------------------------------------------ bounds
MaxPrice == 2
MaxVol == 3
MaxOrderNum == 4
MaxRows == 4
MaxDayRows == 3
MaxFlagRows == 3
MaxDisclosedRows == 3
MaxDay == 2
MaxMonth == 2

\* ------------------------------------------------------------- constants
BUY == "B"
SELL == "S"
BID == BUY
ASK == SELL
None == 0

Sides == {BUY, SELL}
Prices == 1..MaxPrice
Volumes == {1, MaxVol}
Opposite(indicator) == IF indicator = BUY THEN ASK ELSE BID

VARIABLES
  book,           \* self._book_data: side -> (price -> queue of orders)
  events,         \* self._events: event number -> event
  event_counter,  \* self._event_counter
  trades,         \* self._trades: trade number -> trade
  trade_counter,  \* self._trade_counter
  day,            \* the local variable day of process()
  status,         \* "running", or the exception that left process()
  rows,           \* number of rows of df consumed so far
  issued,         \* number of order numbers the feed has issued so far
  last            \* history: the call dispatched by the last step

vars == <<book, events, event_counter, trades, trade_counter, day, status,
          rows, issued, last>>

\* -------------------------------------------------- ordered dict (odict)
\* A price level queue is an odict keyed by order number: a sequence of
\* orders in insertion order, with at most one order per order number.
KeysNewestFirst(od) ==
  [i \in 1..Len(od) |-> od[Len(od) + 1 - i].order_number]

Keys(od) == [i \in 1..Len(od) |-> od[i].order_number]

HasKey(od, n) == \E i \in 1..Len(od) : od[i].order_number = n

IndexOf(od, n) == CHOOSE i \in 1..Len(od) : od[i].order_number = n

Get(od, n) == od[IndexOf(od, n)]

\* od[n] = v: an existing key keeps its place, a new key goes to the end.
OdSet(od, n, v) ==
  IF HasKey(od, n) THEN [od EXCEPT ![IndexOf(od, n)] = v] ELSE Append(od, v)

OdPopOldest(od, n) == Tail(od)

\* od.pop(n)
OdPop(od, n) ==
  LET i == IndexOf(od, n)
  IN  SubSeq(od, 1, i - 1) \o SubSeq(od, i + 1, Len(od))

\* A function without the key p (dict.pop(p)).
Without(f, p) == [q \in DOMAIN f \ {p} |-> f[q]]

SetMax(S) == CHOOSE x \in S : \A y \in S : y <= x
SetMin(S) == CHOOSE x \in S : \A y \in S : x <= y

RECURSIVE SumOriginal(_)
SumOriginal(od) ==
  IF od = <<>> THEN 0 ELSE Head(od).volume_original + SumOriginal(Tail(od))

RECURSIVE SumDisclosed(_)
SumDisclosed(od) ==
  IF od = <<>> THEN 0 ELSE Head(od).volume_disclosed + SumDisclosed(Tail(od))

\* ------------------------------------------------------------- the book
EmptyBook == [s \in Sides |-> <<>>]

HasLevel(bk, indicator, price) == price \in DOMAIN bk[indicator]

\* price_level(): the queue at a price, looked up only where it exists.
price_level(bk, indicator, price) == bk[indicator][price]

create_level(bk, indicator, price) ==
  [bk EXCEPT ![indicator] = (price :> <<>>) @@ bk[indicator]]

delete_level(bk, indicator, price) ==
  [bk EXCEPT ![indicator] = Without(bk[indicator], price)]

delete_order_keep_level(bk, indicator, price, order_number) ==
  [bk EXCEPT ![indicator][price] = OdPop(@, order_number)]

delete_order(bk, indicator, price, order_number) ==
  LET od == OdPop(bk[indicator][price], order_number)
      b1 == [bk EXCEPT ![indicator][price] = od]
  IN  IF od = <<>> THEN delete_level(b1, indicator, price) ELSE b1

best_bid_price(bk) ==
  IF DOMAIN bk[BID] = {} THEN None ELSE SetMax(DOMAIN bk[BID])

best_ask_price(bk) ==
  IF DOMAIN bk[ASK] = {} THEN None ELSE SetMin(DOMAIN bk[ASK])

best_bid_quantity(bk) ==
  IF best_bid_price(bk) # None
  THEN <<SumOriginal(price_level(bk, BID, best_bid_price(bk))),
         SumDisclosed(price_level(bk, BID, best_bid_price(bk)))>>
  ELSE <<0, 0>>

best_ask_quantity(bk) ==
  IF best_ask_price(bk) # None
  THEN <<SumOriginal(price_level(bk, ASK, best_ask_price(bk))),
         SumDisclosed(price_level(bk, ASK, best_ask_price(bk)))>>
  ELSE <<0, 0>>

\* The best price an incoming order of this side trades against.
BestOpposite(bk, indicator) ==
  IF indicator = BUY THEN best_ask_price(bk) ELSE best_bid_price(bk)

\* ----------------------------------------------------------- the journal
\* The event built at the entry of a handler: the row's fields and the top
\* of the book at that moment, with an empty trade.
NewEvent(bk, o, action) ==
  [price |-> o.limit_price,
   order_number |-> o.order_number,
   action |-> action,
   indicator |-> o.buy_sell_indicator,
   mkt_flag |-> o.mkt_flag,
   volume_original |-> o.volume_original,
   volume_disclosed |-> o.volume_disclosed,
   date |-> o.trans_date,
   best_bid |-> best_bid_price(bk),
   best_bid_volume_original |-> best_bid_quantity(bk)[1],
   best_ask |-> best_ask_price(bk),
   best_ask_volume_original |-> best_ask_quantity(bk)[1],
   trade |-> <<>>]

record_event_in_place(j, e) ==
  [events |-> (j.counter :> e) @@ j.events, counter |-> j.counter]

\* A journal is the pair of self._events and self._event_counter.
record_event(j, e) ==
  [events |-> (j.counter :> e) @@ j.events, counter |-> j.counter + 1]

\* ----------------------------------------------------------- the matcher
\* The state of one add() call: the book and the journal as changed so far,
\* the volume still to fill (the local volume_original), the fills made (a
\* history of the call: the book each fill was made in and the order it
\* hit), whether the inner loop hit a break, and the exception raised.
NoError == "none"

CallState(bk, j, V) ==
  [book |-> bk, j |-> j, V |-> V, fills |-> <<>>, broke |-> FALSE,
   error |-> NoError]

\* The trade quantity when the resting volume R is below the incoming V:
\* the resting volume for a market order, the incoming volume for a limit
\* order.
QuantityBelow(o, R, V) == IF o.mkt_flag = "Y" THEN R ELSE V

QuantityAboveIncoming(R, V) == V

\* The trade quantity when the resting volume R is above the incoming V.
QuantityAbove(R, V) == R - V

TradeIncomingBuys(o, curr, best_price, quantity) ==
  [trade_price |-> best_price,
   trade_quantity |-> quantity,
   buy_order_number |-> o.order_number,
   sell_order_number |-> curr.order_number]

Trade(o, curr, best_price, quantity) ==
  [trade_price |-> best_price,
   trade_quantity |-> quantity,
   buy_order_number |->
     IF curr.buy_sell_indicator = BUY THEN curr.order_number
                                      ELSE o.order_number,
   sell_order_number |->
     IF curr.buy_sell_indicator = SELL THEN curr.order_number
                                       ELSE o.order_number]

Fill(st, curr, best_price, quantity) ==
  [book |-> st.book, indicator |-> curr.buy_sell_indicator,
   price |-> best_price, order_number |-> curr.order_number,
   resting |-> curr.volume_original, incoming |-> st.V,
   quantity |-> quantity]

MatchOrderFreshTop(st, o, ev, best_price, curr) ==
  LET R == curr.volume_original
      V == st.V
      q == IF R = V THEN V
           ELSE IF R > V THEN QuantityAbove(R, V)
           ELSE QuantityBelow(o, R, V)
      j1 == record_event(st.j, [NewEvent(st.book, o, "add") EXCEPT
                                  !.trade = <<Trade(o, curr, best_price, q)>>])
      f1 == Append(st.fills, Fill(st, curr, best_price, q))
  IN  IF R = V
      THEN [st EXCEPT !.j = j1, !.fills = f1, !.V = 0, !.broke = TRUE,
                      !.book = delete_order(st.book, curr.buy_sell_indicator,
                                            best_price, curr.order_number)]
      ELSE IF R > V
      THEN [st EXCEPT !.j = j1, !.fills = f1, !.V = 0, !.broke = TRUE,
                      !.book[curr.buy_sell_indicator][best_price] =
                        OdSet(@, curr.order_number,
                              [curr EXCEPT !.volume_original = R - V])]
      ELSE [st EXCEPT !.j = j1, !.fills = f1, !.V = V - R,
                      !.book = delete_order(st.book, curr.buy_sell_indicator,
                                            best_price, curr.order_number)]

\* One pass of the body of "for order_number in od.keys()" for the resting
\* order curr: the three cases on its volume against the incoming volume.
MatchOrder(st, o, ev, best_price, curr) ==
  LET R == curr.volume_original
      V == st.V
      q == IF R = V THEN V
           ELSE IF R > V THEN QuantityAbove(R, V)
           ELSE QuantityBelow(o, R, V)
      j1 == record_event(st.j, [ev EXCEPT !.trade = <<Trade(o, curr, best_price, q)>>])
      f1 == Append(st.fills, Fill(st, curr, best_price, q))
  IN  IF R = V
      THEN [st EXCEPT !.j = j1, !.fills = f1, !.V = 0, !.broke = TRUE,
                      !.book = delete_order(st.book, curr.buy_sell_indicator,
                                            best_price, curr.order_number)]
      ELSE IF R > V
      THEN [st EXCEPT !.j = j1, !.fills = f1, !.V = 0, !.broke = TRUE,
                      !.book[curr.buy_sell_indicator][best_price] =
                        OdSet(@, curr.order_number,
                              [curr EXCEPT !.volume_original = R - V])]
      ELSE [st EXCEPT !.j = j1, !.fills = f1, !.V = V - R,
                      !.book = delete_order(st.book, curr.buy_sell_indicator,
                                            best_price, curr.order_number)]

\* The loop "for order_number in od.keys()" over the keys ks the level had
\* when the loop began, oldest first, until a break.
RECURSIVE MatchLevel(_, _, _, _, _, _)
MatchLevel(st, o, ev, indicator, best_price, ks) ==
  IF ks = <<>> \/ st.broke THEN st
  ELSE MatchLevel(MatchOrder(st, o, ev, best_price,
                             Get(st.book[indicator][best_price], Head(ks))),
                  o, ev, indicator, best_price, Tail(ks))

\* The loop "while volume_original > 0": take the best opposite price, walk
\* its queue, and start again. With no opposite level left, best_price is
\* None and price_level(.., None) raises (the '%f' of its log message).
RECURSIVE Sweep(_, _, _)
Sweep(st, o, ev) ==
  IF st.V <= 0 THEN st
  ELSE LET side == Opposite(o.buy_sell_indicator)
           best_price == BestOpposite(st.book, o.buy_sell_indicator)
       IN  IF best_price = None
           THEN [st EXCEPT !.error = "TypeError"]
           ELSE Sweep(MatchLevel([st EXCEPT !.broke = FALSE], o, ev, side,
                                 best_price,
                                 Keys(st.book[side][best_price])),
                      o, ev)

MarketableStrict(bk, o) ==
  \/ /\ o.buy_sell_indicator = BUY
     /\ best_ask_price(bk) # None
     /\ o.limit_price > best_ask_price(bk)
  \/ /\ o.buy_sell_indicator = SELL
     /\ best_bid_price(bk) # None
     /\ o.limit_price < best_bid_price(bk)

\* The marketability test of a limit order.
Marketable(bk, o) ==
  \/ /\ o.buy_sell_indicator = BUY
     /\ best_ask_price(bk) # None
     /\ o.limit_price >= best_ask_price(bk)
  \/ /\ o.buy_sell_indicator = SELL
     /\ best_bid_price(bk) # None
     /\ o.limit_price <= best_bid_price(bk)

PostOtherSide(bk, j, o, ev) ==
  LET indicator == Opposite(o.buy_sell_indicator)
      price == o.limit_price
      b1 == IF HasLevel(bk, indicator, price) THEN bk
            ELSE create_level(bk, indicator, price)
  IN  [CallState(bk, j, o.volume_original) EXCEPT
         !.book = [b1 EXCEPT ![indicator][price] = OdSet(@, o.order_number, o)],
         !.j = record_event(j, ev)]

\* The branch "if not marketable" of add(): the order goes into the queue
\* of its price on its own side, and one event is recorded.
Post(bk, j, o, ev) ==
  LET indicator == o.buy_sell_indicator
      price == o.limit_price
      b1 == IF HasLevel(bk, indicator, price) THEN bk
            ELSE create_level(bk, indicator, price)
  IN  [CallState(bk, j, o.volume_original) EXCEPT
         !.book = [b1 EXCEPT ![indicator][price] = OdSet(@, o.order_number, o)],
         !.j = record_event(j, ev)]

\* add(new_order)
Add(bk, j, o) ==
  LET ev == NewEvent(bk, o, "add")
      st == CallState(bk, j, o.volume_original)
  IN  IF o.mkt_flag = "Y" THEN Sweep(st, o, ev)
      ELSE IF o.mkt_flag = "N"
      THEN IF ~Marketable(bk, o) THEN Post(bk, j, o, ev)
           ELSE Sweep(st, o, ev)
      ELSE [st EXCEPT !.error = "RuntimeError"]

\* What a handler hands back to process(): the book and the journal it
\* leaves, the exception it raised, and (history) the fills it made and the
\* add() calls it made, each with the order passed and the book at entry.
Result(bk, j, error, fills, adds) ==
  [book |-> bk, j |-> j, error |-> error, fills |-> fills, adds |-> adds]

AddCall(bk, o) == [order |-> o, book |-> bk]

AddResult(bk, j, o) ==
  LET st == Add(bk, j, o)
  IN  Result(st.book, st.j, st.error, st.fills, <<AddCall(bk, o)>>)

ModifyBranchUpFirst(old, o) ==
  IF o.limit_price # old.limit_price THEN "price"
  ELSE IF o.volume_original < old.volume_original THEN "original_down"
  ELSE IF o.volume_original > old.volume_original THEN "original_up"
  ELSE IF o.volume_disclosed < old.volume_disclosed THEN "disclosed_down"
  ELSE IF o.volume_disclosed > old.volume_disclosed THEN "disclosed_up"
  ELSE "undefined"

\* The order the branches of modify() are tried in, for an old order found
\* at the level of the new order's side and price.
ModifyBranch(old, o) ==
  IF o.limit_price # old.limit_price THEN "price"
  ELSE IF o.volume_original < old.volume_original THEN "original_down"
  ELSE IF o.volume_disclosed < old.volume_disclosed THEN "disclosed_down"
  ELSE IF o.volume_original > old.volume_original THEN "original_up"
  ELSE IF o.volume_disclosed > old.volume_disclosed THEN "disclosed_up"
  ELSE "undefined"

OverwriteRequeue(bk, o) ==
  [bk EXCEPT ![o.buy_sell_indicator][o.limit_price] =
               Append(OdPop(@, o.order_number), o)]

\* od[order_number] = new_order
Overwrite(bk, o) ==
  [bk EXCEPT ![o.buy_sell_indicator][o.limit_price] =
               OdSet(@, o.order_number, o)]

\* The old order modify() finds: the one with the new order's number in the
\* level at the new order's side and price.
Found(bk, o) ==
  /\ HasLevel(bk, o.buy_sell_indicator, o.limit_price)
  /\ HasKey(price_level(bk, o.buy_sell_indicator, o.limit_price),
            o.order_number)

OldOrder(bk, o) ==
  Get(price_level(bk, o.buy_sell_indicator, o.limit_price), o.order_number)

\* The body of modify() before its closing record_event.
ModifyBody(bk, j, o) ==
  IF ~Found(bk, o) THEN Result(bk, j, NoError, <<>>, <<>>)
  ELSE LET old == OldOrder(bk, o)
           branch == ModifyBranch(old, o)
       IN  CASE branch = "price" ->
                  AddResult(delete_order(bk, old.buy_sell_indicator,
                                         old.limit_price, o.order_number),
                            j, o)
             [] branch \in {"original_down", "disclosed_down"} ->
                  Result(Overwrite(bk, o), j, NoError, <<>>, <<>>)
             [] branch = "original_up" ->
                  AddResult(bk, j,
                            [o EXCEPT !.volume_original =
                                        @ - old.volume_original])
             [] branch = "disclosed_up" ->
                  AddResult(bk, j,
                            [o EXCEPT !.volume_disclosed =
                                        @ - old.volume_disclosed])
             [] OTHER -> Result(bk, j, NoError, <<>>, <<>>)

ModifyJournalFirst(bk, j, o) ==
  IF o.mkt_flag = "Y" THEN Result(bk, j, "ValueError", <<>>, <<>>)
  ELSE ModifyBody(bk, record_event(j, NewEvent(bk, o, "modify")), o)

ModifyUnjournaled(bk, j, o) ==
  IF o.mkt_flag = "Y" THEN Result(bk, j, "ValueError", <<>>, <<>>)
  ELSE ModifyBody(bk, j, o)

\* modify(new_order)
Modify(bk, j, o) ==
  IF o.mkt_flag = "Y" THEN Result(bk, j, "ValueError", <<>>, <<>>)
  ELSE LET r == ModifyBody(bk, j, o)
       IN  IF r.error # NoError THEN r
           ELSE [r EXCEPT !.j = record_event(r.j, NewEvent(bk, o, "modify"))]

CancelMarketAsLimit(bk, j, o) ==
  LET b1 == IF Found(bk, o)
            THEN delete_order(bk, o.buy_sell_indicator, o.limit_price,
                              o.order_number)
            ELSE bk
  IN  Result(b1, record_event(j, NewEvent(bk, o, "cancel")), NoError,
             <<>>, <<>>)

CancelJournalOnly(bk, j, o) ==
  IF o.mkt_flag = "Y" THEN Result(bk, j, "ValueError", <<>>, <<>>)
  ELSE Result(bk, record_event(j, NewEvent(bk, o, "cancel")), NoError,
              <<>>, <<>>)

\* cancel(order)
Cancel(bk, j, o) ==
  IF o.mkt_flag = "Y" THEN Result(bk, j, "ValueError", <<>>, <<>>)
  ELSE LET b1 == IF Found(bk, o)
                 THEN delete_order(bk, o.buy_sell_indicator, o.limit_price,
                                   o.order_number)
                 ELSE bk
       IN  Result(b1, record_event(j, NewEvent(bk, o, "cancel")), NoError,
                  <<>>, <<>>)

\* The fields of the LimitOrderBook object.
Self ==
  [book |-> book, events |-> events, event_counter |-> event_counter,
   trades |-> trades, trade_counter |-> trade_counter]

clear_book_and_journal(self) ==
  [self EXCEPT !.book = [d \in DOMAIN self.book |-> <<>>],
               !.trade_counter = 1, !.event_counter = 1]

\* clear_book(): every half-book is emptied and the trade counter is set
\* to 1.
clear_book(self) ==
  [self EXCEPT !.book = [d \in DOMAIN self.book |-> <<>>],
               !.trade_counter = 1]

\* ---------------------------------------------------------------- process
\* trans_date is (month, day); strptime(..).day is its day of the month.
DayOf(trans_date) == trans_date[2]

NewDayByMonth(o) == day # None /\ day # o.trans_date[1]

\* Whether process() calls clear_book() before it dispatches this row.
NewDay(o) == day # None /\ day # DayOf(o.trans_date)

\* The object as the handler of row o finds it.
Entry(o) == IF NewDay(o) THEN clear_book(Self) ELSE Self

EntryBook(o) == Entry(o).book

EntryJournal(o) ==
  [events |-> Entry(o).events, counter |-> Entry(o).event_counter]

NoCall ==
  [op |-> "none", cleared |-> FALSE, before |-> EmptyBook,
   entry |-> EmptyBook, first_event |-> 1, fills |-> <<>>, adds |-> <<>>,
   order |-> <<>>]

\* The loop of process() goes on while no exception has left it and the
\* feed, of at most cap rows, has a row left.
Ready(cap) == status = "running" /\ rows < cap

\* One iteration of the loop of process() for the row o, whose handler
\* hands back r; op names the handler.
Step(o, op, r) ==
  /\ rows' = rows + 1
  /\ day' = IF day = None THEN DayOf(o.trans_date) ELSE day
  /\ book' = r.book
  /\ events' = r.j.events
  /\ event_counter' = r.j.counter
  /\ trades' = Entry(o).trades
  /\ trade_counter' = Entry(o).trade_counter
  /\ status' = IF r.error = NoError THEN "running" ELSE r.error
  /\ last' = [op |-> op, cleared |-> NewDay(o), before |-> book,
              entry |-> EntryBook(o),
              first_event |-> Entry(o).event_counter, fills |-> r.fills,
              adds |-> r.adds, order |-> o]

\* activity_type 1
ProcessAdd(F, cap) ==
  /\ Ready(cap)
  /\ \E o \in F.adds :
    /\ o.activity_type = 1
    /\ issued' = issued + 1
    /\ Step(o, "add", AddResult(EntryBook(o), EntryJournal(o), o))

\* activity_type 3
ProcessCancel(F, cap) ==
  /\ Ready(cap)
  /\ \E o \in F.cancels :
    /\ o.activity_type = 3
    /\ issued' = issued
    /\ Step(o, "cancel", Cancel(EntryBook(o), EntryJournal(o), o))

\* activity_type 4, not flagged as a market order
ProcessModify(F, cap) ==
  /\ Ready(cap)
  /\ \E o \in F.modifies :
    /\ o.activity_type = 4
    /\ o.mkt_flag # "Y"
    /\ issued' = issued
    /\ Step(o, "modify", Modify(EntryBook(o), EntryJournal(o), o))

ProcessModifyAlways(F, cap) ==
  /\ Ready(cap)
  /\ \E o \in F.modifies :
    /\ o.activity_type = 4
    /\ o.mkt_flag = "Y"
    /\ issued' = issued
    /\ Step(o, "add", Modify(EntryBook(o), EntryJournal(o), o))

\* activity_type 4, flagged as a market order: handled as an add
ProcessModifyAsAdd(F, cap) ==
  /\ Ready(cap)
  /\ \E o \in F.modifies :
    /\ o.activity_type = 4
    /\ o.mkt_flag = "Y"
    /\ issued' = issued
    /\ Step(o, "add", AddResult(EntryBook(o), EntryJournal(o), o))

ProcessUnknownSkipped(F, cap) ==
  /\ Ready(cap)
  /\ \E o \in F.others :
    /\ o.activity_type \notin {1, 3, 4}
    /\ issued' = issued
    /\ Step(o, "unknown",
            Result(EntryBook(o), EntryJournal(o), NoError, <<>>, <<>>))

\* any other activity_type: ValueError, before which the day check ran
ProcessUnknown(F, cap) ==
  /\ Ready(cap)
  /\ \E o \in F.others :
    /\ o.activity_type \notin {1, 3, 4}
    /\ issued' = issued
    /\ Step(o, "unknown",
            Result(EntryBook(o), EntryJournal(o), "ValueError", <<>>, <<>>))

Init ==
  /\ book = EmptyBook
  /\ events = <<>>
  /\ event_counter = 1
  /\ trades = <<>>
  /\ trade_counter = 1
  /\ day = None
  /\ status = "running"
  /\ rows = 0
  /\ issued = 0
  /\ last = NoCall

\* ------------------------------------------------------------- the feed
Row(n, date, side, activity, price, vo, vd, flag) ==
  [order_number |-> n, trans_date |-> date, buy_sell_indicator |-> side,
   activity_type |-> activity, limit_price |-> price,
   volume_original |-> vo, volume_disclosed |-> vd, mkt_flag |-> flag]

FirstDate == <<1, 1>>

\* Rows that add an order carry the next order number of the feed; rows
\* that cancel or modify carry the number of an order added before.
NewNumbers == IF issued < MaxOrderNum THEN {issued + 1} ELSE {}
OldNumbers == 1..issued

\* (volume_original, volume_disclosed) of the rows of a feed in which every
\* order discloses one unit.
OneDisclosed == {<<v, 1>> : v \in Volumes}

LimitAdds(dates, vols) ==
  {Row(n, d, s, 1, p, v[1], v[2], "N") :
     n \in NewNumbers, d \in dates, s \in Sides, p \in Prices, v \in vols}

MarketAdds(dates, vols) ==
  {Row(n, d, s, 1, 1, v[1], v[2], "Y") :
     n \in NewNumbers, d \in dates, s \in Sides, v \in vols}

Cancels(dates) ==
  {Row(n, d, s, 3, p, 1, 1, "N") :
     n \in OldNumbers, d \in dates, s \in Sides, p \in Prices}

Modifies(dates, vols) ==
  {Row(n, d, s, 4, p, v[1], v[2], "N") :
     n \in OldNumbers, d \in dates, s \in Sides, p \in Prices, v \in vols}

MarketModifies(dates, vols) ==
  {Row(n, d, s, 4, 1, v[1], v[2], "Y") :
     n \in OldNumbers, d \in dates, s \in Sides, v \in vols}

Unknowns(dates) ==
  {Row(n, d, BUY, 2, 1, 1, 1, "N") : n \in OldNumbers, d \in dates}

\* The rows a feed may send next, by activity_type.
Rows(dates, vols) ==
  [adds |-> LimitAdds(dates, vols) \cup MarketAdds(dates, vols),
   cancels |-> Cancels(dates),
   modifies |-> Modifies(dates, vols) \cup MarketModifies(dates, vols),
   others |-> Unknowns(dates)]

\* The feed of one trading day.
Feed == Rows({FirstDate}, OneDisclosed)

\* The feed of several days, in chronological order: (month, day) dates
\* that never go back.
Dates == (1..MaxMonth) \X (1..MaxDay)

LastDate == IF last.op = "none" THEN FirstDate ELSE last.order.trans_date

NotBefore(d, e) == d[1] > e[1] \/ (d[1] = e[1] /\ d[2] >= e[2])

NextDates ==
  IF last.op = "none" THEN {FirstDate}
  ELSE {d \in Dates : NotBefore(d, LastDate)}

FeedDays == Rows(NextDates, OneDisclosed)

NextDays ==
  \/ ProcessAdd(FeedDays, MaxDayRows)
  \/ ProcessCancel(FeedDays, MaxDayRows)
  \/ ProcessModify(FeedDays, MaxDayRows)
  \/ ProcessModifyAsAdd(FeedDays, MaxDayRows)
  \/ ProcessUnknown(FeedDays, MaxDayRows)

SpecDays == Init /\ [][NextDays]_vars

Next ==
  \/ ProcessAdd(Feed, MaxRows)
  \/ ProcessCancel(Feed, MaxRows)
  \/ ProcessModify(Feed, MaxRows)
  \/ ProcessModifyAsAdd(Feed, MaxRows)
  \/ ProcessUnknown(Feed, MaxRows)

Spec == Init /\ [][Next]_vars

\* The feed of one trading day in which rows may also carry a mkt_flag that
\* is neither 'Y' nor 'N', and cancels may carry 'Y'.
OtherFlag == "X"

FlagAdds(dates, vols) ==
  {Row(n, d, s, 1, p, v[1], v[2], OtherFlag) :
     n \in NewNumbers, d \in dates, s \in Sides, p \in Prices, v \in vols}

FlagCancels(dates) ==
  {Row(n, d, s, 3, p, 1, 1, f) :
     n \in OldNumbers, d \in dates, s \in Sides, p \in Prices,
     f \in {"Y", OtherFlag}}

FlagModifies(dates, vols) ==
  {Row(n, d, s, 4, p, v[1], v[2], OtherFlag) :
     n \in OldNumbers, d \in dates, s \in Sides, p \in Prices, v \in vols}

FeedFlags ==
  [adds |-> Feed.adds \cup FlagAdds({FirstDate}, OneDisclosed),
   cancels |-> Feed.cancels \cup FlagCancels({FirstDate}),
   modifies |-> Feed.modifies \cup FlagModifies({FirstDate}, OneDisclosed),
   others |-> Feed.others]

NextFlags ==
  \/ ProcessAdd(FeedFlags, MaxFlagRows)
  \/ ProcessCancel(FeedFlags, MaxFlagRows)
  \/ ProcessModify(FeedFlags, MaxFlagRows)
  \/ ProcessModifyAsAdd(FeedFlags, MaxFlagRows)
  \/ ProcessUnknown(FeedFlags, MaxFlagRows)

SpecFlags == Init /\ [][NextFlags]_vars

\* The feed of one trading day in which an order discloses nothing or one
\* unit of its volume.
AnyDisclosed == {<<v, d>> : v \in Volumes, d \in {0, 1}}

FeedDisclosed == Rows({FirstDate}, AnyDisclosed)

NextDisclosed ==
  \/ ProcessAdd(FeedDisclosed, MaxDisclosedRows)
  \/ ProcessCancel(FeedDisclosed, MaxDisclosedRows)
  \/ ProcessModify(FeedDisclosed, MaxDisclosedRows)
  \/ ProcessModifyAsAdd(FeedDisclosed, MaxDisclosedRows)
  \/ ProcessUnknown(FeedDisclosed, MaxDisclosedRows)

SpecDisclosed == Init /\ [][NextDisclosed]_vars

\* The feed of one trading day in which an order discloses one unit or the
\* whole of its volume: 0 <= volume_disclosed <= volume_original in every
\* row that adds or modifies an order.
UpToOriginal == {vd \in Volumes \X Volumes : vd[2] \in {1, vd[1]}}

FeedUpToOriginal == Rows({FirstDate}, UpToOriginal)

NextUpToOriginal ==
  \/ ProcessAdd(FeedUpToOriginal, MaxDisclosedRows)
  \/ ProcessCancel(FeedUpToOriginal, MaxDisclosedRows)
  \/ ProcessModify(FeedUpToOriginal, MaxDisclosedRows)
  \/ ProcessModifyAsAdd(FeedUpToOriginal, MaxDisclosedRows)
  \/ ProcessUnknown(FeedUpToOriginal, MaxDisclosedRows)

SpecUpToOriginal == Init /\ [][NextUpToOriginal]_vars

\* ---------------------------------------------------------- properties
\* The queue at a price of a side: empty where the book has no such level.
QueueAt(bk, side, price) ==
  IF price \in DOMAIN bk[side] THEN bk[side][price] ELSE <<>>

\* The order numbers resting anywhere in a book.
RestingNumbers(bk) ==
  UNION {UNION {{bk[s][p][i].order_number : i \in DOMAIN bk[s][p]} :
                  p \in DOMAIN bk[s]} : s \in Sides}

RECURSIVE VolumeOver(_, _, _)
VolumeOver(bk, side, ps) ==
  IF ps = {} THEN 0
  ELSE LET p == CHOOSE q \in ps : TRUE
       IN  SumOriginal(bk[side][p]) + VolumeOver(bk, side, ps \ {p})

\* The total volume_original resting on a side.
SideVolume(bk, side) == VolumeOver(bk, side, DOMAIN bk[side])

\* The order o, taken as a limit order, crosses the book bk.
Crosses(bk, o) ==
  \/ /\ o.buy_sell_indicator = BUY
     /\ \E a \in DOMAIN bk[ASK] : o.limit_price >= a
  \/ /\ o.buy_sell_indicator = SELL
     /\ \E b \in DOMAIN bk[BID] : o.limit_price <= b

\* The events the last step journaled.
LastEvents == {k \in DOMAIN events : k >= last.first_event}

\* An order with the number of o rests at o's side and price in bk.
RestsAt(bk, o) ==
  \E i \in DOMAIN QueueAt(bk, o.buy_sell_indicator, o.limit_price) :
    QueueAt(bk, o.buy_sell_indicator, o.limit_price)[i].order_number
      = o.order_number

\* The rows o and x name the same order: side, price and order number.
SameOrder(o, x) ==
  /\ o.order_number = x.order_number
  /\ o.buy_sell_indicator = x.buy_sell_indicator
  /\ o.limit_price = x.limit_price

\* C1: after every step of process() (add, modify, cancel, day reset), when
\* both half-books hold orders, every resting bid price is strictly below
\* every resting ask price: the highest bid is below the lowest ask.
C1_BookNeverCrossed ==
  \A b \in DOMAIN book[BID], a \in DOMAIN book[ASK] : b < a

\* C1 witness: a step that matched and left orders resting on both sides.
C1_Witness ==
  /\ last.fills # <<>>
  /\ DOMAIN book[BID] # {}
  /\ DOMAIN book[ASK] # {}

\* C2: price-time priority. Every fill of an incoming order hits, in the
\* book as it is at that moment, the first (oldest) order of the queue at
\* the best opposite price (lowest ask for a buy, highest bid for a sell),
\* and the trade journaled for it names that order at that price.
C2_PriceTimePriority ==
  \A i \in DOMAIN last.fills :
    LET f == last.fills[i]
        o == last.adds[1].order
        side == Opposite(o.buy_sell_indicator)
        t == events[last.first_event + i - 1].trade[1]
    IN  /\ f.indicator = side
        /\ f.price \in DOMAIN f.book[side]
        /\ side = ASK => \A p \in DOMAIN f.book[side] : f.price <= p
        /\ side = BID => \A p \in DOMAIN f.book[side] : f.price >= p
        /\ f.book[side][f.price][1].order_number = f.order_number
        /\ t.trade_price = f.price
        /\ (IF side = ASK THEN t.sell_order_number ELSE t.buy_order_number)
             = f.order_number

\* C2 witness: a fill made while the opposite side held two price levels
\* and two orders queued at the best one.
C2_Witness ==
  \E i \in DOMAIN last.fills :
    LET f == last.fills[i]
    IN  /\ Cardinality(DOMAIN f.book[f.indicator]) >= 2
        /\ Len(f.book[f.indicator][f.price]) >= 2

\* C3: a market order for more than the whole opposite side (an empty side
\* included) is not fatal: it takes all the opposite liquidity, leaves the
\* opposite half-book empty, posts nothing on its own side, and process()
\* goes on.
C3_MarketBeyondLiquidityNotFatal ==
  (/\ last.op = "add"
   /\ last.order.mkt_flag = "Y"
   /\ last.order.volume_original
        > SideVolume(last.entry, Opposite(last.order.buy_sell_indicator)))
  => /\ status = "running"
     /\ DOMAIN book[Opposite(last.order.buy_sell_indicator)] = {}
     /\ book[last.order.buy_sell_indicator]
          = last.entry[last.order.buy_sell_indicator]

\* C4: every add() of a limit order matches exactly when it crosses the
\* book (buy at or above the lowest ask, sell at or below the highest
\* bid); otherwise the order goes to the tail of the queue at its price on
\* its own side, nothing else changes, no trade happens and exactly one add
\* event, with empty trade, is journaled.
C4_LimitAddPostsAtTail ==
  \A c \in DOMAIN last.adds :
    LET o == last.adds[c].order
        b0 == last.adds[c].book
        adds == {k \in LastEvents : events[k].action = "add"}
    IN  (o.mkt_flag = "N") =>
          IF Crosses(b0, o) THEN last.fills # <<>>
          ELSE /\ last.fills = <<>>
               /\ \A s \in Sides, p \in Prices :
                    QueueAt(book, s, p) =
                      IF s = o.buy_sell_indicator /\ p = o.limit_price
                      THEN Append(QueueAt(b0, s, p), o)
                      ELSE QueueAt(b0, s, p)
               /\ Cardinality(adds) = 1
               /\ \A k \in adds : events[k].trade = <<>>

\* C5: every fill adds one record to the trade log and one event with a
\* trade to the event log: the trade log holds as many records as there
\* are events that carry a trade.
C5_TradeLogMatchesTradeEvents ==
  Cardinality(DOMAIN trades)
    = Cardinality({k \in DOMAIN events : events[k].trade # <<>>})

\* C6: a row whose day of the month differs from the recorded day is
\* handled on a cleared book: no order resting before the step rests after
\* it, the step matches nothing, and every event journaled before stays.
C6_NewDayClearsBeforeDispatch ==
  [][(day # None /\ DayOf(last'.order.trans_date) # day)
       => /\ last'.entry = EmptyBook
          /\ RestingNumbers(book') \cap RestingNumbers(book) = {}
          /\ last'.fills = <<>>
          /\ \A k \in DOMAIN events :
               k \in DOMAIN events' /\ events'[k] = events[k]]_vars

\* C6 witness: on a new day, a limit order that crosses an order of the day
\* before was handled, after earlier events had been journaled.
C6_Witness ==
  /\ last.op = "add"
  /\ last.order.mkt_flag = "N"
  /\ day # DayOf(last.order.trans_date)
  /\ Crosses(last.before, last.order)
  /\ last.first_event > 1
  /\ status = "running"

\* C7: clear_book() empties both half-books and sets the trade counter to
\* 1; it leaves the event counter, every journaled event and every
\* journaled trade as they were.
C7_ClearBookFrame ==
  [][last'.cleared
       => /\ last'.entry = EmptyBook
          /\ trade_counter' = 1
          /\ trades' = trades
          /\ last'.first_event = event_counter
          /\ \A k \in DOMAIN events :
               k \in DOMAIN events' /\ events'[k] = events[k]
          /\ (last'.op = "unknown")
               => /\ book' = EmptyBook
                  /\ events' = events
                  /\ event_counter' = event_counter]_vars

\* C7 witness: clear_book() ran on a book that held orders, with events
\* journaled before, and nothing ran after it.
C7_Witness ==
  /\ last.cleared
  /\ last.op = "unknown"
  /\ last.before # EmptyBook
  /\ last.first_event > 1
  /\ book = EmptyBook

\* C8: cancel of a limit order: the order with its number at its side and
\* price, if there, is removed (and the level with it when it empties), no
\* other order changes, no error is raised when it is not there, and one
\* cancel event with empty trade is journaled.
C8_CancelRemovesOnlyTheOrder ==
  (last.op = "cancel" /\ last.order.mkt_flag = "N")
  => LET o == last.order
         Keep(x) == x.order_number # o.order_number
         Expected(s, p) ==
           IF s = o.buy_sell_indicator /\ p = o.limit_price
           THEN SelectSeq(QueueAt(last.entry, s, p), Keep)
           ELSE QueueAt(last.entry, s, p)
     IN  /\ status = "running"
         /\ \A s \in Sides :
              /\ DOMAIN book[s] \subseteq Prices
              /\ \A p \in Prices :
                   /\ QueueAt(book, s, p) = Expected(s, p)
                   /\ p \in DOMAIN book[s] <=> Expected(s, p) # <<>>
         /\ LastEvents = {last.first_event}
         /\ event_counter = last.first_event + 1
         /\ events[last.first_event].action = "cancel"
         /\ events[last.first_event].order_number = o.order_number
         /\ events[last.first_event].trade = <<>>

\* C8 witness: a cancel removed an order that had another order queued
\* before it in its level.
C8_Witness ==
  /\ last.op = "cancel"
  /\ RestsAt(last.entry, last.order)
  /\ Len(QueueAt(last.entry, last.order.buy_sell_indicator,
                 last.order.limit_price)) >= 2
  /\ QueueAt(last.entry, last.order.buy_sell_indicator,
             last.order.limit_price)[1].order_number
       # last.order.order_number

\* C9 as stated: add(O) of any limit order O and then cancel(O), with
\* nothing between, leave both half-books as they were before the add.
C9_AddThenCancelRestores ==
  [][(/\ last.op = "add"
      /\ last.order.mkt_flag = "N"
      /\ last'.op = "cancel"
      /\ SameOrder(last'.order, last.order))
       => book' = last.entry]_vars

\* C9 amended: add(O) of a limit order O that does not cross the book and
\* then cancel(O), with nothing between, leave both half-books as they
\* were before the add.
C9_AddThenCancelRestoresUnmarketable ==
  [][(/\ last.op = "add"
      /\ last.order.mkt_flag = "N"
      /\ ~Crosses(last.entry, last.order)
      /\ last'.op = "cancel"
      /\ SameOrder(last'.order, last.order))
       => book' = last.entry]_vars

\* C9 witness: a cancel found the order that the step right before it had
\* posted (the add event is the last one journaled before the cancel), in
\* a book holding other orders.
C9_Witness ==
  /\ last.op = "cancel"
  /\ last.first_event > 1
  /\ RestsAt(last.entry, last.order)
  /\ events[last.first_event - 1].action = "add"
  /\ events[last.first_event - 1].trade = <<>>
  /\ events[last.first_event - 1].order_number = last.order.order_number
  /\ book # EmptyBook

\* The last step was a modify that found its order and only lowered its
\* volume_original.
LoweredOriginal ==
  /\ last.op = "modify"
  /\ RestsAt(last.entry, last.order)
  /\ LET q == QueueAt(last.entry, last.order.buy_sell_indicator,
                      last.order.limit_price)
         i == CHOOSE i \in DOMAIN q :
                q[i].order_number = last.order.order_number
     IN  /\ last.order.volume_original < q[i].volume_original
         /\ last.order.volume_disclosed = q[i].volume_disclosed

\* The order of the last step is the first of the queue at the best price
\* of its side in bk.
FirstAtBest(bk) ==
  LET s == last.order.buy_sell_indicator
      p == last.order.limit_price
  IN  /\ p \in DOMAIN bk[s]
      /\ \A q \in DOMAIN bk[s] : IF s = BID THEN q <= p ELSE q >= p
      /\ bk[s][p][1].order_number = last.order.order_number

\* C10: a modify that only lowers volume_original of a resting order
\* overwrites it where it is: every queue keeps its order numbers in the
\* same places and only that order's entry changes; and the next order of
\* the opposite side that matches, when the modified order was first at
\* the best price before the modify, hits it first.
C10_LoweredVolumeKeepsPlace ==
  /\ [](LoweredOriginal
          => \A s \in Sides :
               /\ DOMAIN book[s] = DOMAIN last.entry[s]
               /\ \A p \in DOMAIN book[s] :
                    /\ Len(book[s][p]) = Len(last.entry[s][p])
                    /\ \A i \in DOMAIN book[s][p] :
                         book[s][p][i] =
                           IF /\ s = last.order.buy_sell_indicator
                              /\ p = last.order.limit_price
                              /\ last.entry[s][p][i].order_number
                                   = last.order.order_number
                           THEN last.order
                           ELSE last.entry[s][p][i])
  /\ [][(/\ LoweredOriginal
         /\ FirstAtBest(last.entry)
         /\ last'.op = "add"
         /\ last'.order.buy_sell_indicator
              = Opposite(last.order.buy_sell_indicator)
         /\ last'.fills # <<>>)
          => last'.fills[1].order_number = last.order.order_number]_vars

\* C10 witness: an incoming order hit first an order that the step before
\* had lowered by modify (its event is the last before the fill) and that
\* had another order queued behind it.
C10_Witness ==
  /\ last.op = "add"
  /\ last.fills # <<>>
  /\ last.first_event > 1
  /\ LET f == last.fills[1]
         q == f.book[f.indicator][f.price]
     IN  /\ Len(q) >= 2
         /\ q[1].order_number = f.order_number
         /\ q[1].activity_type = 4
         /\ events[last.first_event - 1].action = "modify"
         /\ events[last.first_event - 1].order_number = f.order_number
         /\ events[last.first_event - 1].volume_original
              = f.resting

\* The order numbers queued at a price of a side.
NumbersAt(bk, side, price) ==
  {QueueAt(bk, side, price)[i].order_number :
     i \in DOMAIN QueueAt(bk, side, price)}

\* The prices other than that of the row of the last step at which, on the
\* row's side, an order with the row's number rested when the handler began.
OtherPricesOfLast ==
  {p \in DOMAIN last.entry[last.order.buy_sell_indicator] :
     /\ p # last.order.limit_price
     /\ last.order.order_number
          \in NumbersAt(last.entry, last.order.buy_sell_indicator, p)}

\* C11: a modify of a resting limit order to a limit_price other than the
\* one it rests at takes the order out of its old level and runs add() with
\* the new order: no order with its number rests at the old price any more,
\* and the new order was matched or is the last of the queue at the new
\* price.
C11_PriceChangeMovesOrder ==
  (last.op = "modify" /\ OtherPricesOfLast # {})
  => LET o == last.order
         q == QueueAt(book, o.buy_sell_indicator, o.limit_price)
     IN  /\ \A p \in OtherPricesOfLast :
               o.order_number \notin NumbersAt(book, o.buy_sell_indicator, p)
         /\ \/ last.fills # <<>>
            \/ q # <<>> /\ q[Len(q)] = o

\* C12: a modify that does not find its order (no order with the row's
\* number in the level at the row's side and price) raises nothing, leaves
\* both half-books as they were, trades nothing, and journals exactly one
\* event, with action 'modify' and empty trade.
C12_ModifyNotFoundJournalsOnly ==
  (last.op = "modify" /\ ~Found(last.entry, last.order))
  => /\ status = "running"
     /\ book = last.entry
     /\ last.fills = <<>>
     /\ LastEvents = {last.first_event}
     /\ event_counter = last.first_event + 1
     /\ events[last.first_event].action = "modify"
     /\ events[last.first_event].order_number = last.order.order_number
     /\ events[last.first_event].trade = <<>>

\* C12 witness: a modify named an order number that rested nowhere, in a
\* book that held other orders.
C12_Witness ==
  /\ last.op = "modify"
  /\ last.order.order_number \notin RestingNumbers(last.entry)
  /\ last.entry # EmptyBook
  /\ status = "running"

\* C13: a row whose activity_type is not 1, 3 or 4 ends process() with an
\* error: no event is journaled for it, every event journaled before stays
\* as it was, and no later row is processed.
C13_UnknownActivityAborts ==
  /\ [](last.op = "unknown" => status # "running")
  /\ [][last'.op = "unknown"
          => /\ events' = events
             /\ event_counter' = event_counter]_vars
  /\ [][last.op # "unknown"]_vars

\* C13 witness: a row of unknown activity_type came after events had been
\* journaled, on a book holding orders, with rows of the feed still to come.
C13_Witness ==
  /\ last.op = "unknown"
  /\ status = "ValueError"
  /\ events # <<>>
  /\ book # EmptyBook
  /\ rows < MaxRows

\* C14: an add, a modify or a cancel whose mkt_flag is neither 'Y' nor 'N'
\* is rejected with an error and changes neither the half-books nor the
\* event log.
C14_InvalidFlagRejected ==
  (/\ last.op \in {"add", "modify", "cancel"}
   /\ last.order.mkt_flag \notin {"Y", "N"})
  => /\ status # "running"
     /\ book = last.entry
     /\ LastEvents = {}
     /\ event_counter = last.first_event

\* C15: a cancel whose mkt_flag is 'Y' raises an error and leaves both
\* half-books and the event log as they were before the call: no order is
\* removed and no cancel event is journaled.
C15_MarketCancelRejected ==
  [][(last'.op = "cancel" /\ last'.order.mkt_flag = "Y")
       => /\ status' = "ValueError"
          /\ book' = book
          /\ events' = events
          /\ event_counter' = event_counter]_vars

\* C15 witness: a cancel flagged 'Y' named an order that rests in the book,
\* after events had been journaled.
C15_Witness ==
  /\ last.op = "cancel"
  /\ last.order.mkt_flag = "Y"
  /\ RestsAt(book, last.order)
  /\ events # <<>>
  /\ status = "ValueError"

\* C16: the event log only grows, under consecutive numbers: an event is
\* stored under the event counter, which then goes up by one; no step
\* (clear_book on a new day included) lowers the counter, removes an event
\* or changes a stored one, so the keys of the log are always 1..n.
C16_EventLogAppendOnly ==
  /\ [](DOMAIN events = 1..(event_counter - 1))
  /\ [][/\ event_counter' >= event_counter
        /\ \A k \in DOMAIN events :
             k \in DOMAIN events' /\ events'[k] = events[k]
        /\ \A k \in DOMAIN events' \ DOMAIN events :
             k >= event_counter /\ k < event_counter']_vars

\* C16 witness: after clear_book() on a new day, an event was journaled
\* under the number that follows those of the day before.
C16_Witness ==
  /\ last.cleared
  /\ last.first_event > 1
  /\ event_counter > last.first_event
  /\ DOMAIN events = 1..last.first_event

\* The sum of the quantities of the trades, among the events ks, that name
\* the order number n as buyer or seller.
RECURSIVE TradedVolume(_, _)
TradedVolume(n, ks) ==
  IF ks = {} THEN 0
  ELSE LET k == CHOOSE x \in ks : TRUE
           t == events[k].trade
       IN  (IF t # <<>> /\ n \in {t[1].buy_order_number,
                                  t[1].sell_order_number}
            THEN t[1].trade_quantity ELSE 0)
           + TradedVolume(n, ks \ {k})

\* The volume_original resting in bk under the order number n.
RECURSIVE RestingVolumeIn(_, _)
RestingVolumeIn(od, n) ==
  IF od = <<>> THEN 0
  ELSE (IF Head(od).order_number = n THEN Head(od).volume_original ELSE 0)
       + RestingVolumeIn(Tail(od), n)

RECURSIVE RestingVolumeOver(_, _, _)
RestingVolumeOver(bk, n, sps) ==
  IF sps = {} THEN 0
  ELSE LET sp == CHOOSE x \in sps : TRUE
       IN  RestingVolumeIn(bk[sp[1]][sp[2]], n)
           + RestingVolumeOver(bk, n, sps \ {sp})

RestingVolume(bk, n) ==
  RestingVolumeOver(bk, n, {sp \in Sides \X Prices : sp[2] \in DOMAIN bk[sp[1]]})

\* C17: volume conservation, for the order a row of activity_type 1 has
\* just brought (never modified, never cancelled) when its add has
\* returned: the quantities of the journaled trades that name it sum to its
\* original volume less the volume of it that rests.
C17_VolumeConservation ==
  (/\ last.op = "add"
   /\ last.order.activity_type = 1
   /\ last.order.mkt_flag = "N"
   /\ status = "running")
  => TradedVolume(last.order.order_number, DOMAIN events)
       = last.order.volume_original
           - RestingVolume(book, last.order.order_number)

\* C18: no price level of either half-book is empty: a level is there only
\* while an order rests in it, and goes in the step that takes its last
\* order (a full fill or a cancel).
C18_NoEmptyLevel ==
  \A s \in Sides : \A p \in DOMAIN book[s] : book[s][p] # <<>>

\* C18 witness: a fill took the last order of a level while another level
\* of that side stayed.
C18_Witness ==
  /\ last.fills # <<>>
  /\ \E s \in Sides :
       /\ \E p \in DOMAIN last.entry[s] : p \notin DOMAIN book[s]
       /\ DOMAIN book[s] # {}

\* C19: every order resting in the level at price p of the BID half-book
\* is a BUY order with limit_price p, and every order resting in the level
\* at price p of the ASK half-book is a SELL order with limit_price p.
C19_OrdersMatchTheirLevel ==
  \A s \in Sides : \A p \in DOMAIN book[s] : \A i \in DOMAIN book[s][p] :
    /\ book[s][p][i].buy_sell_indicator = s
    /\ book[s][p][i].limit_price = p

\* C19 witness: an order that a modify had overwritten in place was then
\* partly filled and still rests.
C19_Witness ==
  /\ last.fills # <<>>
  /\ \E i \in DOMAIN last.fills :
       LET f == last.fills[i]
       IN  /\ f.resting > f.incoming
           /\ Get(f.book[f.indicator][f.price], f.order_number).activity_type
                = 4
           /\ f.order_number \in NumbersAt(book, f.indicator, f.price)

\* C20: in the matcher, for market orders and marketable limit orders, a
\* resting order whose volume R is below the incoming volume V is traded
\* for the quantity R at its price and removed from the book, V goes down
\* by R, and the matching goes on with the next resting order.
C20_RestingBelowIncoming ==
  \A i \in DOMAIN last.fills :
    LET f == last.fills[i]
        t == events[last.first_event + i - 1].trade[1]
    IN  f.resting < f.incoming
        => /\ t.trade_quantity = f.resting
           /\ t.trade_price = f.price
           /\ f.order_number \notin NumbersAt(book, f.indicator, f.price)
           /\ (i + 1) \in DOMAIN last.fills
                => last.fills[i + 1].incoming = f.incoming - f.resting

\* The trade journaled for the i-th fill of the last step.
TradeOfFill(i) == events[last.first_event + i - 1].trade[1]

\* C21: in the matcher, for market orders and marketable limit orders, a
\* resting order whose volume R is above the incoming volume V is traded
\* for the quantity R - V at its price, stays where it is in its queue with
\* its volume_original lowered by V, and the matching stops there: it is
\* the last fill and add() returns.
C21_RestingAboveIncoming ==
  \A i \in DOMAIN last.fills :
    LET f == last.fills[i]
        q == f.book[f.indicator][f.price]
        After == [k \in DOMAIN q |->
                    IF q[k].order_number = f.order_number
                    THEN [q[k] EXCEPT !.volume_original = @ - f.incoming]
                    ELSE q[k]]
    IN  f.resting > f.incoming
        => /\ TradeOfFill(i).trade_quantity = f.resting - f.incoming
           /\ TradeOfFill(i).trade_price = f.price
           /\ i = Len(last.fills)
           /\ status = "running"
           /\ \A s \in Sides, p \in Prices :
                QueueAt(book, s, p) =
                  IF s = f.indicator /\ p = f.price THEN After
                  ELSE QueueAt(f.book, s, p)

\* C21 witness: a limit order, after it took a smaller resting order, met
\* one larger than what it had left, with another order queued behind, the
\* quantity R - V being other than V.
C21_Witness ==
  /\ last.op = "add"
  /\ last.order.mkt_flag = "N"
  /\ Len(last.fills) >= 2
  /\ LET f == last.fills[Len(last.fills)]
     IN  /\ f.resting > f.incoming
         /\ f.resting - f.incoming # f.incoming
         /\ Len(f.book[f.indicator][f.price]) >= 2

\* C22: a marketable limit order for more than the whole volume of the
\* opposite side takes all of it and then ends normally, what is left of
\* it being dropped: add() raises nothing, the opposite half-book is empty
\* and no order with the incoming number rests on its own side.
C22_LimitBeyondLiquidityNotFatal ==
  (/\ last.op = "add"
   /\ last.order.activity_type = 1
   /\ last.order.mkt_flag = "N"
   /\ Crosses(last.entry, last.order)
   /\ last.order.volume_original
        > SideVolume(last.entry, Opposite(last.order.buy_sell_indicator)))
  => /\ status = "running"
     /\ DOMAIN book[Opposite(last.order.buy_sell_indicator)] = {}
     /\ \A p \in Prices :
          last.order.order_number
            \notin NumbersAt(book, last.order.buy_sell_indicator, p)

\* C23: every event journaled by one add() (the event of each fill of a
\* sweep, or the one event of a post) carries the best bid, the best ask
\* and the volume_original sums of their levels as they were in the book
\* at the entry of that add(), whatever the earlier fills of the same call
\* did to the top of the book.
C23_EventsCarryEntryTop ==
  \A c \in DOMAIN last.adds :
    \A k \in LastEvents :
      events[k].action = "add"
      => /\ events[k].best_bid = best_bid_price(last.adds[c].book)
         /\ events[k].best_bid_volume_original
              = best_bid_quantity(last.adds[c].book)[1]
         /\ events[k].best_ask = best_ask_price(last.adds[c].book)
         /\ events[k].best_ask_volume_original
              = best_ask_quantity(last.adds[c].book)[1]

\* C23 witness: a sweep whose second fill was made at another price than
\* its first: the first fill had emptied the best level.
C23_Witness ==
  /\ Len(last.fills) >= 2
  /\ last.fills[2].price # last.fills[1].price
  /\ events[last.first_event + 1].action = "add"

\* C24: a row with activity_type 4 and mkt_flag 'Y' is handled as the add
\* of that market order: the book, the events journaled (action 'add') and
\* the outcome are those of add() for the same row with activity_type 1,
\* and the cannot-modify-market error is never raised.
C24_MarketModifyHandledAsAdd ==
  [][(last'.order.activity_type = 4 /\ last'.order.mkt_flag = "Y")
       => LET o == last'.order
              r == AddResult(EntryBook(o), EntryJournal(o),
                             [o EXCEPT !.activity_type = 1])
          IN  /\ last'.op = "add"
              /\ book' = r.book
              /\ events' = r.j.events
              /\ event_counter' = r.j.counter
              /\ last'.fills = r.fills
              /\ status' = (IF r.error = NoError THEN "running" ELSE r.error)
              /\ status' # "ValueError"]_vars

\* C24 witness: a row with activity_type 4 and mkt_flag 'Y' traded against
\* a resting order and add() returned.
C24_Witness ==
  /\ last.op = "add"
  /\ last.order.activity_type = 4
  /\ last.order.mkt_flag = "Y"
  /\ last.fills # <<>>
  /\ events[last.first_event].action = "add"
  /\ status = "running"

\* C25: every modify() that returns journals exactly one event with action
\* 'modify', with empty trade, whichever branch it took (not found,
\* overwrite in place, add of the difference, undefined scenario), and
\* that event is the last of the call: the events of the add() it made
\* come before it.
C25_ModifyEventComesLast ==
  (last.op = "modify" /\ status = "running")
  => /\ event_counter - 1 \in LastEvents
     /\ events[event_counter - 1].action = "modify"
     /\ events[event_counter - 1].order_number = last.order.order_number
     /\ events[event_counter - 1].trade = <<>>
     /\ \A k \in LastEvents \ {event_counter - 1} :
          events[k].action = "add"
     /\ Cardinality(LastEvents) = 1 + Len(last.adds)

\* C25 witness: a modify raised volume_disclosed only, made an add() of
\* the difference and returned.
C25_Witness ==
  /\ last.op = "modify"
  /\ status = "running"
  /\ last.adds # <<>>
  /\ Found(last.entry, last.order)
  /\ ModifyBranch(OldOrder(last.entry, last.order), last.order)
       = "disclosed_up"
  /\ Cardinality(LastEvents) = 2

\* C26: in every journaled trade buy_order_number is the number of a BUY
\* order and sell_order_number that of a SELL order: one is the incoming
\* order of the call, the other the resting order filled in that very
\* pass (the head of the queue at that moment), also in a sweep of several
\* fills.
C26_TradeNamesBuyerAndSeller ==
  \A i \in DOMAIN last.fills :
    LET f == last.fills[i]
        o == last.adds[1].order
        curr == f.book[f.indicator][f.price][1]
    IN  /\ curr.order_number = f.order_number
        /\ curr.buy_sell_indicator = Opposite(o.buy_sell_indicator)
        /\ IF o.buy_sell_indicator = BUY
           THEN /\ TradeOfFill(i).buy_order_number = o.order_number
                /\ TradeOfFill(i).sell_order_number = curr.order_number
                /\ curr.buy_sell_indicator = SELL
           ELSE /\ TradeOfFill(i).sell_order_number = o.order_number
                /\ TradeOfFill(i).buy_order_number = curr.order_number
                /\ curr.buy_sell_indicator = BUY

\* C26 witness: an incoming SELL order filled two resting BUY orders.
C26_Witness ==
  /\ last.op = "add"
  /\ last.order.buy_sell_indicator = SELL
  /\ Len(last.fills) >= 2
  /\ last.fills[1].order_number # last.fills[2].order_number

\* The last step was a modify that found its order and raised its
\* volume_original, with volume_disclosed not lowered, and returned.
RaisedOriginal ==
  /\ last.op = "modify"
  /\ status = "running"
  /\ Found(last.entry, last.order)
  /\ last.order.volume_original
       > OldOrder(last.entry, last.order).volume_original
  /\ last.order.volume_disclosed
       >= OldOrder(last.entry, last.order).volume_disclosed

\* C27: after a modify that raises volume_original of a resting limit
\* order from a to b at the same price (volume_disclosed not lowered,
\* nothing matched), the volume_original resting in the book under its
\* order number is b.
C27_RaisedVolumeRests ==
  (RaisedOriginal /\ last.fills = <<>>)
  => RestingVolume(book, last.order.order_number)
       = last.order.volume_original

\* The book bk with the order of the row o, at o's side and price, replaced
\* by o where it is.
ReplacedInPlace(bk, o) ==
  [s \in Sides |->
     [p \in DOMAIN bk[s] |->
        [i \in DOMAIN bk[s][p] |->
           IF /\ s = o.buy_sell_indicator
              /\ p = o.limit_price
              /\ bk[s][p][i].order_number = o.order_number
           THEN o ELSE bk[s][p][i]]]]

\* C28: the branches of modify() are tried in the order price change,
\* volume_original lowered, volume_disclosed lowered, volume_original
\* raised, volume_disclosed raised, and only the first that applies runs:
\* a modify at the same price that lowers volume_original, or that lowers
\* volume_disclosed while it raises volume_original, overwrites the order
\* where it is and makes no add() (one modify event, no add event); one
\* that lowers neither makes one add(), of the difference of
\* volume_original when that is raised, else of that of volume_disclosed.
C28_FirstModifyBranchRuns ==
  (last.op = "modify" /\ Found(last.entry, last.order))
  => LET o == last.order
         old == OldOrder(last.entry, o)
     IN  IF \/ o.volume_original < old.volume_original
            \/ o.volume_disclosed < old.volume_disclosed
         THEN /\ last.adds = <<>>
              /\ book = ReplacedInPlace(last.entry, o)
              /\ LastEvents = {last.first_event}
              /\ events[last.first_event].action = "modify"
         ELSE IF \/ o.volume_original > old.volume_original
                 \/ o.volume_disclosed > old.volume_disclosed
         THEN last.adds =
                <<AddCall(last.entry,
                          IF o.volume_original > old.volume_original
                          THEN [o EXCEPT !.volume_original =
                                           @ - old.volume_original]
                          ELSE [o EXCEPT !.volume_disclosed =
                                           @ - old.volume_disclosed])>>
         ELSE last.adds = <<>> /\ book = last.entry

\* C28 witness: a modify lowered volume_disclosed and raised
\* volume_original of an order that had another order queued before it.
C28_Witness ==
  /\ last.op = "modify"
  /\ Found(last.entry, last.order)
  /\ last.order.volume_original
       > OldOrder(last.entry, last.order).volume_original
  /\ last.order.volume_disclosed
       < OldOrder(last.entry, last.order).volume_disclosed
  /\ price_level(last.entry, last.order.buy_sell_indicator,
                 last.order.limit_price)[1].order_number
       # last.order.order_number

\* C29: limit price protection: every trade of an incoming BUY limit order
\* of limit price p is at a price <= p, and every trade of an incoming SELL
\* limit order of limit price p at a price >= p, also when the order takes
\* more than one opposite price level.
C29_LimitPriceProtection ==
  \A i \in DOMAIN last.fills :
    LET o == last.adds[1].order
    IN  o.mkt_flag = "N"
        => IF o.buy_sell_indicator = BUY
           THEN TradeOfFill(i).trade_price <= o.limit_price
           ELSE TradeOfFill(i).trade_price >= o.limit_price

\* C30: the book is cleared only when the day changes: a row whose date is
\* that of the row right before it does not call clear_book(), and its
\* handler finds the orders the earlier rows of that day left resting.
C30_SameDateNeverClears ==
  [][(last.op # "none" /\ last'.order.trans_date = last.order.trans_date)
       => /\ ~last'.cleared
          /\ last'.entry = book]_vars

\* C31: when every row has 0 <= volume_disclosed <= volume_original, every
\* order resting in the book has volume_disclosed <= volume_original, also
\* after partial fills and modifies.
C31_DisclosedWithinOriginal ==
  \A s \in Sides : \A p \in DOMAIN book[s] : \A i \in DOMAIN book[s][p] :
    book[s][p][i].volume_disclosed <= book[s][p][i].volume_original

====
